---- MODULE Spec2Model ----
(***************************************************************************)
(* Model of wordfence/wordpress/remediator.py: the Remediator, its lazy    *)
(* remediate(path) generator, the single-file procedure remediate_file and *)
(* the RemediationResult value type.                                       *)
(*                                                                         *)
(* The generator is modelled with an explicit position (gpc) and the call  *)
(* of remediate_file with an explicit position (fpc), so that the order of *)
(* classify / fetch / open / write and the suspension at every yield are   *)
(* states of the model.                                                    *)
(***************************************************************************)
EXTENDS Integers, Sequences, FiniteSets, TLC

\* ---------------------------------------------------------------- bounds
NumFiles == 2      \* files that exist below the directory
MaxLen == 2        \* longest byte string (on disk or fetched)
MaxInputs == 2     \* remediate(path) sequences that are started
MaxLoops == 1      \* symlink cycles one enumeration reports

\* ----------------------------------------------------------- value types
Bytes == {0, 1}

\* bytes objects of length 0..MaxLen
Contents == UNION {[1..n -> Bytes] : n \in 0..MaxLen}

\* Optional[T]: None is the empty set, a present value x is {x}
None == {}
Some(x) == {x}
TheVal(o) == CHOOSE x \in o : TRUE

\* Resolved paths: one directory and NumFiles files below it
Paths == 0..NumFiles
IsDir(p) == p = 0
Root == CHOOSE p \in Paths : IsDir(p)
FilePaths == {p \in Paths : ~IsDir(p)}

\* A path as the caller (or the enumeration) spells it: the node it names
\* and whether the spelling is already the canonical one
RawPaths == [node : Paths, canonical : BOOLEAN]

\* util.io.pathlib_resolve: str -> Path, the canonical path of the node
pathlib_resolve(raw) == raw.node

\* identifier.FileType: UNKNOWN and the types of identified files
KnownTypes == {"CORE"}
UnknownType == "UNKNOWN"

FileIdentity(p) == [cls |-> "FileIdentity", type |-> UnknownType, path |-> p]
KnownFileIdentity(t, p) == [cls |-> "KnownFileIdentity", type |-> t, path |-> p]
GroupIdentity(t, p) == [cls |-> "GroupIdentity", type |-> t, path |-> p]

\* FileIdentifier.identify(path): what the classifier may return for path
identify(p) == {FileIdentity(p)} \cup {KnownFileIdentity(t, p) : t \in KnownTypes}

\* The bytes the catalog may hold for a file (b'' included), and the modified
\* bytes a file holds before anything is remediated
CanonicalContents == {[i \in 1..n |-> 1] : n \in 0..MaxLen}
ModifiedContent == [i \in 1..MaxLen |-> 0]

\* noc1.Client.get_wp_file_content: it returns the bytes of the catalog or
\* raises ApiException (a transport or protocol failure, or no such entry)
ClientOutcomes ==
    {[raises |-> TRUE, content |-> << >>]}
        \cup {[raises |-> FALSE, content |-> b] : b \in CanonicalContents}

\* Variant: no except clause, the ApiException leaves get_correct_content
Noc1GetCorrectContentUncaught(o) ==
    [raised |-> o.raises,
     value |-> IF o.raises THEN None ELSE Some(o.content)]

\* Noc1RemediationSource.get_correct_content (lines 26-51) for one outcome of
\* the client: what it returns, and whether an exception leaves it
Noc1GetCorrectContent(o) ==
    IF o.raises
       THEN [raised |-> FALSE, value |-> None]
       ELSE [raised |-> FALSE, value |-> Some(o.content)]

\* Remediator.get_correct_content(identity): what the call of the source may
\* come back with
get_correct_content(id) == {Noc1GetCorrectContent(o) : o \in ClientOutcomes}

\* Variant: an omitted target_path falls back to the directory instead of path
RemediationResultOtherDefault(path, id, known, remediated, target_path) ==
    [path |-> path,
     identity |-> id,
     known |-> known,
     remediated |-> remediated,
     target_path |-> IF target_path # None THEN TheVal(target_path) ELSE Root]

\* RemediationResult.__init__
RemediationResult(path, id, known, remediated, target_path) ==
    [path |-> path,
     identity |-> id,
     known |-> known,
     remediated |-> remediated,
     target_path |-> IF target_path # None THEN TheVal(target_path) ELSE path]

\* RemediationResult.__bool__
ResultBool(r) == r.remediated

\* ------------------------------------------------------------ filesystem
\* Variant: a mode that opens the file without truncating it ('r+b')
OpenNoTruncate(content) == content

\* open(p, 'wb'): the file is truncated to length zero when the open succeeds
OpenWb(content) == << >>

\* file.write(b) on a file opened at position 0: b replaces the first Len(b)
\* bytes and anything beyond them stays
WriteAt(content, b) ==
    b \o SubSeq(content, Len(b) + 1, Len(content))

Prefixes(b) == {SubSeq(b, 1, n) : n \in 0..Len(b)}

\* What util.io.iterate_files(path, loop_callback) may produce for the
\* directory: the files found below it, each concrete file once.  The files
\* are interchangeable, so the order of the enumeration is fixed to the order
\* of their numbers.
Listings == SUBSET FilePaths
NextFile(remaining) == CHOOSE n \in remaining : \A m \in remaining : n <= m

\* ----------------------------------------------------------------- state
VARIABLES
    disk,            \* [FilePaths -> bytes]: the content of every file
    input_count,     \* Remediator.input_count
    gpc,             \* position of the remediate() generator
    g_arg,           \* remediate: `path` as a str (line 120 rebinds the name)
    g_path,          \* remediate: the local `path` after pathlib_resolve
    file_found,      \* remediate: the local file_found
    iter,            \* the files iterate_files has still to produce
    listed,          \* the files iterate_files produces in all for this input
    fpc,             \* position inside remediate_file
    f_path,          \* remediate_file: path
    f_target,        \* remediate_file: target_path (Optional)
    identity,        \* remediate_file: identity
    correct_content, \* remediate_file: correct_content (Optional)
    result,          \* remediate_file: result
    pre,             \* bytes of f_path when remediate_file was entered
    f_wrote,         \* the path this call opened for writing and truncated
    results,         \* results handed to the caller by the current operation
    wrote,           \* per handed result: the path that was written, if any
    pulls,           \* next() calls made on the current generator
    identified,      \* paths given to the classifier, in order
    fetched,         \* paths whose content was asked of the source, in order
    opened,          \* paths on which open(.., 'wb') was attempted, in order
    warned           \* handle_symlink_loop invocations

gen_vars == <<gpc, g_arg, g_path, file_found, iter, listed>>
frame_vars == <<fpc, f_path, f_target, identity, correct_content, result, pre, f_wrote>>
hist_vars == <<results, wrote, pulls, identified, fetched, opened, warned>>
vars == <<disk, input_count, gen_vars, frame_vars, hist_vars>>

NoFrame ==
    /\ fpc' = "idle"
    /\ f_path' = Root
    /\ f_target' = None
    /\ identity' = FileIdentity(Root)
    /\ correct_content' = None
    /\ result' = RemediationResult(Root, FileIdentity(Root), FALSE, FALSE, None)
    /\ pre' = << >>
    /\ f_wrote' = None

\* Entering remediate_file(path, target_path)
Enter(path, target_path) ==
    /\ fpc' = "identify"
    /\ f_path' = path
    /\ f_target' = target_path
    /\ identity' = FileIdentity(Root)
    /\ correct_content' = None
    /\ result' = RemediationResult(Root, FileIdentity(Root), FALSE, FALSE, None)
    /\ pre' = IF path \in FilePaths THEN disk[path] ELSE << >>
    /\ f_wrote' = None

ResetHistory ==
    /\ results' = << >>
    /\ wrote' = << >>
    /\ pulls' = 0
    /\ identified' = << >>
    /\ fetched' = << >>
    /\ opened' = << >>
    /\ warned' = 0

\* Remediator.__init__, over a filesystem of modified files
Init ==
    /\ disk = [p \in FilePaths |-> ModifiedContent]
    /\ input_count = 0
    /\ gpc = "none"
    /\ g_arg = [node |-> Root, canonical |-> TRUE]
    /\ g_path = Root
    /\ file_found = FALSE
    /\ iter = {}
    /\ listed = {}
    /\ fpc = "idle"
    /\ f_path = Root
    /\ f_target = None
    /\ identity = FileIdentity(Root)
    /\ correct_content = None
    /\ result = RemediationResult(Root, FileIdentity(Root), FALSE, FALSE, None)
    /\ pre = << >>
    /\ f_wrote = None
    /\ results = << >>
    /\ wrote = << >>
    /\ pulls = 0
    /\ identified = << >>
    /\ fetched = << >>
    /\ opened = << >>
    /\ warned = 0


\* ------------------------------------------------------ remediate_file
\* Variants of the statements below, each changed the way a slip in the code
\* would change it
IsUnknownNeverTaken(id) == FALSE
SetKnownForgotten(r) == r
OpenedPathIsTarget == result.target_path

\* line 91: identity.type is FileType.UNKNOWN
IsUnknown(id) == id.type = UnknownType

\* Variant: the check of line 96 never taken
IsNoneNeverTaken(c) == FALSE

\* line 96: correct_content is None
IsNone(c) == c = None

\* line 102: result.known = True
SetKnown(r) == [r EXCEPT !.known = TRUE]

\* Variant: the file that is opened is the first file of the directory,
\* whatever file is being processed
OpenedPathIsFirstFile == NextFile(FilePaths)

\* line 107: result.remediated = True
SetRemediated(r) == [r EXCEPT !.remediated = TRUE]

\* line 105: the path handed to open(.., 'wb')
OpenedPath == f_path

\* Variant: no except clause, the OSError leaves remediate_file
AfterOSErrorUncaught == "raised"

\* lines 108-112: the except clause catches the OSError and logs it, and
\* control reaches the return of line 113
AfterOSError == "return"

\* lines 89-93: classify, build the result, return it when unknown
Identify ==
    /\ fpc = "identify"
    /\ \E id \in identify(f_path) :
          /\ identity' = id
          /\ result' = RemediationResult(f_path, id, FALSE, FALSE, f_target)
          /\ fpc' = IF IsUnknown(id) THEN "return" ELSE "fetch"
    /\ identified' = Append(identified, f_path)
    /\ UNCHANGED <<disk, input_count, gen_vars, f_path, f_target,
                   correct_content, pre, f_wrote,
                   results, wrote, pulls, fetched, opened, warned>>

\* lines 94-102: ask the source, return when nothing is available
Fetch ==
    /\ fpc = "fetch"
    /\ \E r \in get_correct_content(identity) :
          IF r.raised
             THEN /\ correct_content' = correct_content
                  /\ fpc' = "raised"
                  /\ result' = result
             ELSE /\ correct_content' = r.value
                  /\ IF IsNone(r.value)
                        THEN fpc' = "return" /\ result' = result
                        ELSE fpc' = "open" /\ result' = SetKnown(result)
    /\ fetched' = Append(fetched, f_path)
    /\ UNCHANGED <<disk, input_count, gen_vars, f_path, f_target, identity,
                   pre, f_wrote,
                   results, wrote, pulls, identified, opened, warned>>

\* line 105: open(path, 'wb') either raises OSError and leaves the file alone
\* or truncates the file
Open ==
    /\ fpc = "open"
    /\ opened' = Append(opened, OpenedPath)
    /\ \E ok \in BOOLEAN :
          IF ok /\ OpenedPath \in FilePaths
             THEN /\ disk' = [disk EXCEPT ![OpenedPath] = OpenWb(@)]
                  /\ f_wrote' = Some(OpenedPath)
                  /\ fpc' = "write"
             ELSE /\ disk' = disk
                  /\ f_wrote' = f_wrote
                  /\ fpc' = AfterOSError
    /\ UNCHANGED <<input_count, gen_vars, f_path, f_target, identity,
                   correct_content, result, pre,
                   results, wrote, pulls, identified, fetched, warned>>

\* lines 106-107: file.write(correct_content) and the close at the end of the
\* with block succeed
WriteOk ==
    /\ fpc = "write"
    /\ disk' = [disk EXCEPT ![TheVal(f_wrote)] = WriteAt(@, TheVal(correct_content))]
    /\ result' = SetRemediated(result)
    /\ fpc' = "return"
    /\ UNCHANGED <<input_count, gen_vars, f_path, f_target, identity,
                   correct_content, pre, f_wrote, hist_vars>>

\* lines 106, 108-112: the write or the close raises OSError, which leaves
\* some prefix of the content in the truncated file
WriteFail ==
    /\ fpc = "write"
    /\ \E part \in Prefixes(TheVal(correct_content)) :
          disk' = [disk EXCEPT ![TheVal(f_wrote)] = WriteAt(@, part)]
    /\ fpc' = AfterOSError
    /\ UNCHANGED <<input_count, gen_vars, f_path, f_target, identity,
                   correct_content, result, pre, f_wrote, hist_vars>>

\* ----------------------------------------------------------- remediate
\* Variants of the statements below
NoFileFoundAlways == TRUE
FileFoundNeverSet == FALSE
AfterYieldNotSuspended == "for"
LoopCallTargetOmitted == None

\* line 127: the arguments of the call made for an enumerated file
LoopCallPath(file) == pathlib_resolve(file)
LoopCallTarget == Some(g_path)

\* line 129: not file_found
NoFileFound == ~file_found

\* lines 130-133: the result of a directory in which no file was found
GroupResult ==
    RemediationResult(g_path, GroupIdentity(UnknownType, g_path), FALSE, FALSE, None)

\* line 127: the generator stays suspended at the yield until the next pull
AfterYield == "yield_loop"

\* line 128: file_found = True
FileFoundAfterYield == TRUE

\* Variant: remediate as a plain function, counting when it is called
CountAfterCallEager == input_count + 1

\* line 118: the call itself leaves input_count alone
CountAfterCall == input_count

\* line 119: self.input_count += 1, run by the first next()
CountAfterFirstNext == input_count + 1

\* Calling remediate(path) creates the generator object; no line of the body
\* runs before the first next()
Remediate ==
    /\ gpc = "none"
    /\ fpc = "idle"
    /\ input_count < MaxInputs
    /\ \E arg \in RawPaths :
          /\ g_arg' = arg
          /\ gpc' = "created"
    /\ input_count' = CountAfterCall
    /\ ResetHistory
    /\ UNCHANGED <<disk, g_path, file_found, iter, listed, frame_vars>>

\* First next(): lines 119-123 for a directory, lines 119-121 and the call of
\* line 135 for anything else
NextStart ==
    /\ gpc = "created"
    /\ pulls' = pulls + 1
    /\ input_count' = CountAfterFirstNext
    /\ g_path' = pathlib_resolve(g_arg)
    /\ g_arg' = [node |-> g_path', canonical |-> TRUE]
    /\ IF IsDir(g_path')
          THEN /\ file_found' = FALSE
               /\ iter' \in Listings
               /\ listed' = iter'
               /\ gpc' = "for"
               /\ UNCHANGED frame_vars
          ELSE /\ gpc' = "call_single"
               /\ Enter(g_path', None)
               /\ UNCHANGED <<file_found, iter, listed>>
    /\ UNCHANGED <<disk, results, wrote, identified, fetched, opened, warned>>

\* Variant: the hook raises instead of returning, which ends the generator
HandleSymlinkLoopRaises ==
    /\ gpc = "for"
    /\ warned < MaxLoops
    /\ warned' = warned + 1
    /\ gpc' = "done"
    /\ UNCHANGED <<disk, input_count, g_arg, g_path, file_found, iter, listed,
                   frame_vars, results, wrote, pulls, identified, fetched, opened>>

\* line 123: iterate_files meets a symlink cycle and reports it through
\* loop_callback; handle_symlink_loop (lines 115-116) logs a warning and
\* returns, and the enumeration goes on
HandleSymlinkLoop ==
    /\ gpc = "for"
    /\ warned < MaxLoops
    /\ warned' = warned + 1
    /\ UNCHANGED <<disk, input_count, gen_vars, frame_vars,
                   results, wrote, pulls, identified, fetched, opened>>

\* lines 123-127: the enumeration produces a file and remediate_file is called
ForFile ==
    /\ gpc = "for"
    /\ iter # {}
    /\ \E canonical \in BOOLEAN :
          Enter(LoopCallPath([node |-> NextFile(iter), canonical |-> canonical]),
                LoopCallTarget)
    /\ iter' = iter \ {NextFile(iter)}
    /\ gpc' = "call_loop"
    /\ UNCHANGED <<disk, input_count, g_arg, g_path, file_found, listed, hist_vars>>

\* lines 129-133: the enumeration is exhausted
ForExhausted ==
    /\ gpc = "for"
    /\ iter = {}
    /\ IF NoFileFound
          THEN /\ results' = Append(results, GroupResult)
               /\ wrote' = Append(wrote, None)
               /\ gpc' = "yield_group"
          ELSE /\ gpc' = "done"
               /\ UNCHANGED <<results, wrote>>
    /\ UNCHANGED <<disk, input_count, g_arg, g_path, file_found, iter, listed,
                   frame_vars, pulls, identified, fetched, opened, warned>>

\* line 113 (return result), and the yield of line 127 or 135 when the call
\* was made by the generator.  An exception that left remediate_file would
\* hand no result to anyone and would end the generator.
Return ==
    /\ fpc \in {"return", "raised"}
    /\ IF fpc = "return"
          THEN /\ results' = Append(results, result)
               /\ wrote' = Append(wrote, f_wrote)
               /\ gpc' = CASE gpc = "call_loop" -> AfterYield
                           [] gpc = "call_single" -> "yield_single"
                           [] OTHER -> gpc
          ELSE /\ UNCHANGED <<results, wrote>>
               /\ gpc' = IF gpc \in {"call_loop", "call_single"} THEN "done" ELSE gpc
    /\ NoFrame
    /\ UNCHANGED <<disk, input_count, g_arg, g_path, file_found, iter, listed,
                   pulls, identified, fetched, opened, warned>>

\* A later next(): line 128 and back to the loop head, or the end of the body
NextResume ==
    /\ gpc \in {"yield_loop", "yield_group", "yield_single"}
    /\ pulls' = pulls + 1
    /\ IF gpc = "yield_loop"
          THEN file_found' = FileFoundAfterYield /\ gpc' = "for"
          ELSE file_found' = file_found /\ gpc' = "done"
    /\ UNCHANGED <<disk, input_count, g_arg, g_path, iter, listed, frame_vars,
                   results, wrote, identified, fetched, opened, warned>>

\* The consumer drops the generator, exhausted or not: its locals go with it
Close ==
    /\ gpc \in {"created", "yield_loop", "yield_group", "yield_single", "done"}
    /\ gpc' = "none"
    /\ g_arg' = [node |-> Root, canonical |-> TRUE]
    /\ g_path' = Root
    /\ file_found' = FALSE
    /\ iter' = {}
    /\ listed' = {}
    /\ UNCHANGED <<disk, input_count, frame_vars, hist_vars>>

\* A direct call remediate_file(path, target_path)
CallRemediateFile ==
    /\ gpc = "none"
    /\ fpc = "idle"
    /\ \E p \in FilePaths, t \in {None} \cup {Some(q) : q \in Paths} :
          Enter(p, t)
    /\ ResetHistory
    /\ UNCHANGED <<disk, input_count, gen_vars>>

Next ==
    \/ Remediate
    \/ NextStart
    \/ HandleSymlinkLoop
    \/ ForFile
    \/ ForExhausted
    \/ NextResume
    \/ Close
    \/ CallRemediateFile
    \/ Identify
    \/ Fetch
    \/ Open
    \/ WriteOk
    \/ WriteFail
    \/ Return

Spec == Init /\ [][Next]_vars

\* The code is sequential: once next() is called the body runs to the next
\* yield, and a consumer that pulls the sequence to the end keeps calling
\* next() while the generator is suspended
Progress ==
    \/ NextStart
    \/ NextResume
    \/ HandleSymlinkLoop
    \/ ForFile
    \/ ForExhausted
    \/ Identify
    \/ Fetch
    \/ Open
    \/ WriteOk
    \/ WriteFail
    \/ Return

\* The consumer that pulls every sequence to the end: it drops a generator
\* only once it is exhausted, and it makes no direct call of remediate_file
CloseExhausted == gpc = "done" /\ Close
PulledNext ==
    \/ Remediate
    \/ NextStart
    \/ HandleSymlinkLoop
    \/ ForFile
    \/ ForExhausted
    \/ NextResume
    \/ CloseExhausted
    \/ Identify
    \/ Fetch
    \/ Open
    \/ WriteOk
    \/ WriteFail
    \/ Return
PulledSpec == Init /\ [][PulledNext]_vars /\ WF_vars(Progress)

TypeOK ==
    /\ disk \in [FilePaths -> Contents]
    /\ input_count \in 0..MaxInputs
    /\ gpc \in {"none", "created", "for", "call_loop", "yield_loop", "yield_group",
                "call_single", "yield_single", "done"}
    /\ fpc \in {"idle", "identify", "fetch", "open", "write", "return", "raised"}
    /\ iter \subseteq listed
    /\ Len(results) = Len(wrote)


\* ============================================================== claims
Handed == 1..Len(results)

\* C1: every result that remediate or remediate_file produces, whatever the
\* classifier, the source and the filesystem did, has known = TRUE whenever
\* it has remediated = TRUE.
C1_RemediatedImpliesKnown ==
    /\ \A i \in Handed : results[i].remediated => results[i].known
    /\ result.remediated => result.known

C1_Witness ==
    \E i \in Handed : results[i].remediated /\ results[i].known

\* C2 (as claimed): when the classifier returned a non-Unknown identity and the
\* source returned None, remediate_file returns known = TRUE, remediated =
\* FALSE, and the bytes of the file are unchanged.
C2_Claim ==
    (fpc = "return" /\ identity.type # UnknownType /\ correct_content = None)
        => /\ result.known
           /\ ~result.remediated
           /\ disk[f_path] = pre

\* C3 (as claimed): when content was fetched and the overwrite fails with an
\* OSError, at open or after the open, remediate_file returns known = TRUE,
\* remediated = FALSE, and the original bytes of the file are unchanged.
C3_Claim ==
    (fpc = "return" /\ correct_content # None /\ ~result.remediated)
        => /\ result.known
           /\ disk[f_path] = pre

C5_WriteReplacesContent ==
    [][WriteOk => /\ result'.remediated
                  /\ disk'[f_path] = TheVal(correct_content)]_vars

C5_Witness ==
    /\ fpc = "return"
    /\ result.remediated
    /\ Len(pre) > Len(TheVal(correct_content))
    /\ disk[f_path] = TheVal(correct_content)

\* C6: when the classifier returned Unknown, remediate_file returns known =
\* FALSE and remediated = FALSE, the bytes of the file are unchanged, and the
\* source was never asked for content for that file.
C6_UnknownUntouched ==
    (fpc = "return" /\ identity.type = UnknownType)
        => /\ ~result.known
           /\ ~result.remediated
           /\ disk[f_path] = pre
           /\ correct_content = None
           /\ f_wrote = None
           /\ \A i \in 1..Len(fetched) : fetched[i] # f_path

C6_Witness ==
    /\ fpc = "return"
    /\ identity.type = UnknownType
    /\ result.identity = FileIdentity(f_path)
    /\ Len(fetched) > 0


\* The input of the current generator is a directory and its body has run to
\* the end
DirDone == gpc = "done" /\ IsDir(g_path)
ResultPaths == {results[i].path : i \in Handed}

\* C7 (as claimed): a directory in which no file is identified as anything but
\* Unknown, empty or not, yields exactly one result, whose identity is a
\* GroupIdentity with role Unknown.
C7_Claim ==
    (DirDone /\ \A i \in Handed : results[i].identity.type = UnknownType)
        => /\ Len(results) = 1
           /\ results[1].identity = GroupIdentity(UnknownType, g_path)

\* C7 (amended): a directory whose enumeration yields no file yields exactly
\* one result, whose identity is a GroupIdentity with role Unknown; a directory
\* that holds only unidentifiable files yields one result per file, each with
\* the Unknown identity of that file, and no GroupIdentity result.
C7_GroupOnlyWhenNoFile ==
    (DirDone /\ \A i \in Handed : results[i].identity.type = UnknownType)
        => IF identified = << >>
              THEN /\ Len(results) = 1
                   /\ results[1].identity = GroupIdentity(UnknownType, g_path)
              ELSE /\ Len(results) = Len(identified)
                   /\ \A i \in Handed :
                         results[i].identity = FileIdentity(identified[i])

C7_Witness ==
    /\ DirDone
    /\ Len(identified) = NumFiles
    /\ \A i \in Handed : results[i].identity = FileIdentity(identified[i])

\* C8: a remediate(path) sequence driven to completion yields at least one
\* result: exactly one, carrying GroupIdentity(Unknown, path) with known =
\* FALSE and remediated = FALSE, for a directory whose enumeration yields no
\* file; exactly n, one per enumerated file and none with a GroupIdentity, for
\* a directory whose enumeration yields n >= 1 files.
C8_OneResultPerFile ==
    gpc = "done" =>
        /\ Len(results) >= 1
        /\ (IsDir(g_path) /\ listed = {}) =>
              results = <<[path |-> g_path,
                           identity |-> GroupIdentity(UnknownType, g_path),
                           known |-> FALSE,
                           remediated |-> FALSE,
                           target_path |-> g_path]>>
        /\ (IsDir(g_path) /\ listed # {}) =>
              /\ Len(results) = Cardinality(listed)
              /\ ResultPaths = listed
              /\ \A i \in Handed : results[i].identity.cls # "GroupIdentity"

C8_Witness ==
    /\ DirDone
    /\ Cardinality(listed) = NumFiles
    /\ Len(results) = NumFiles

\* C9: no work proceeds ahead of consumption: while a remediate(path) sequence
\* exists, the files classified, fetched for or opened are at most as many as
\* the results the consumer requested, and while the sequence is suspended
\* after k results no file beyond the k-th has been classified, looked up or
\* opened.
Suspended == gpc \in {"yield_loop", "yield_group", "yield_single"}
C9_NoWorkAhead ==
    gpc # "none" =>
        /\ Len(identified) <= pulls
        /\ Len(fetched) <= pulls
        /\ Len(opened) <= pulls
        /\ Len(results) <= pulls
        /\ gpc = "created" => pulls = 0 /\ identified = << >>
        /\ Suspended =>
              /\ Len(results) = pulls
              /\ Len(identified) <= Len(results)
              /\ \A i \in 1..Len(identified) : identified[i] \in ResultPaths
              /\ \A i \in 1..Len(fetched) : fetched[i] \in ResultPaths
              /\ \A i \in 1..Len(opened) : opened[i] \in ResultPaths

C9_Witness ==
    /\ gpc = "yield_loop"
    /\ iter # {}
    /\ Len(identified) = pulls
    /\ Len(fetched) = pulls

\* C10: a per-file failure never aborts the traversal: when a file of a
\* directory is classified Unknown, has no content available or fails to be
\* written, the files enumerated after it are still processed, and each has
\* its own result when the sequence has been pulled to the end.
Failed(r) == ~r.remediated
C10_FailureDoesNotAbort ==
    /\ (gpc = "yield_loop" /\ Failed(results[Len(results)]))
          => listed = ResultPaths \cup iter
    /\ (DirDone /\ \E i \in Handed : Failed(results[i]))
          => /\ iter = {}
             /\ \A f \in listed :
                   \E j \in Handed :
                      results[j].path = f /\ results[j].identity.path = f

C10_Witness ==
    /\ DirDone
    /\ Len(results) = NumFiles
    /\ Failed(results[1])
    /\ wrote[1] # None
    /\ results[NumFiles].remediated


\* C11: every processed path ends with a returned RemediationResult and nothing
\* raised to the caller: an ApiException of the remote lookup becomes "not
\* available" (None) and the result is returned with remediated = FALSE, and
\* an OSError of the overwrite is absorbed into remediated = FALSE.
C11_NothingRaised ==
    /\ fpc # "raised"
    /\ fpc = "idle" =>
          /\ Len(identified) <= Len(results)
          /\ \A i \in 1..Len(identified) : results[i].path = identified[i]
    /\ (fpc = "return" /\ identity.type # UnknownType /\ correct_content = None)
          => ~result.remediated /\ f_wrote = None
    /\ (fpc = "return" /\ correct_content # None /\ ~result.remediated)
          => opened # << >> /\ opened[Len(opened)] = f_path

C11_Witness ==
    /\ fpc = "idle"
    /\ Len(results) = NumFiles
    /\ \A i \in Handed : results[i].identity.type # UnknownType
    /\ fetched = identified
    /\ opened # << >>
    /\ opened # fetched
    /\ ~results[Len(results)].remediated


\* C12: a RemediationResult constructed without a target_path has target_path
\* equal to path: the result of remediate_file called without target_path, the
\* result remediate yields for a single-file input, and the GroupIdentity
\* result of an empty directory.
C12_TargetDefaultsToPath ==
    /\ (fpc \in {"fetch", "open", "write", "return"} /\ f_target = None)
          => result.path = f_path /\ result.target_path = f_path
    /\ gpc = "yield_single"
          => /\ results[Len(results)].path = g_path
             /\ results[Len(results)].target_path = g_path
    /\ gpc = "yield_group"
          => /\ results[Len(results)].identity.cls = "GroupIdentity"
             /\ results[Len(results)].path = g_path
             /\ results[Len(results)].target_path = g_path

C12_Witness ==
    /\ gpc = "yield_single"
    /\ g_path \in FilePaths
    /\ results[1].remediated
    /\ results[1].target_path = results[1].path


\* C13: the traversal of a directory that contains symlink cycles terminates
\* when it is pulled to the end; every detected cycle invokes handle_symlink_loop, which only logs and
\* lets the enumeration continue; and every file of the enumeration still has
\* its result at the end.
C13_LoopsDoNotStopTraversal ==
    /\ [](gpc = "for" => <>(gpc = "done"))
    /\ []((DirDone /\ warned > 0) => (iter = {} /\ listed \subseteq ResultPaths))
    /\ [][warned' > warned =>
             /\ gpc' = gpc
             /\ UNCHANGED <<disk, input_count, iter, listed, file_found,
                            frame_vars, results, identified, fetched, opened>>]_vars

C13_Witness ==
    /\ DirDone
    /\ warned = MaxLoops
    /\ warned > 0
    /\ Len(results) = NumFiles
    /\ listed = ResultPaths


\* The number of times path p occurs in the sequence of calls s
Occurrences(s, p) == Cardinality({i \in 1..Len(s) : s[i] = p})
InCall == fpc \in {"identify", "fetch", "open", "write", "return"}

\* C14: for each processed path the steps follow the order classify, fetch,
\* write: the source is asked at most once and only after the classifier
\* returned a non-Unknown identity, the file is opened for writing at most once
\* and only after the source returned content, and the result ends in exactly
\* one of the terminals (known, remediated) = (FALSE, FALSE), (TRUE, FALSE) or
\* (TRUE, TRUE).
C14_ClassifyFetchWrite ==
    /\ \A p \in Paths :
          /\ Occurrences(identified, p) <= 1
          /\ Occurrences(fetched, p) <= Occurrences(identified, p)
          /\ Occurrences(opened, p) <= Occurrences(fetched, p)
    /\ fpc = "identify" =>
          Occurrences(identified, f_path) = 0 /\ Occurrences(fetched, f_path) = 0
    /\ fpc = "fetch" =>
          /\ identity.type # UnknownType
          /\ Occurrences(identified, f_path) = 1
          /\ Occurrences(fetched, f_path) = 0
          /\ Occurrences(opened, f_path) = 0
    /\ fpc = "open" =>
          /\ identity.type # UnknownType
          /\ correct_content # None
          /\ Occurrences(fetched, f_path) = 1
          /\ Occurrences(opened, f_path) = 0
    /\ fpc = "write" =>
          /\ correct_content # None
          /\ Occurrences(opened, f_path) = 1
          /\ f_wrote = Some(f_path)
    /\ fpc = "return" =>
          /\ Occurrences(identified, f_path) = 1
          /\ Occurrences(fetched, f_path) = 1 => identity.type # UnknownType
          /\ Occurrences(opened, f_path) = 1 => correct_content # None
          /\ <<result.known, result.remediated>>
                \in {<<FALSE, FALSE>>, <<TRUE, FALSE>>, <<TRUE, TRUE>>}
          /\ result.remediated => Occurrences(opened, f_path) = 1
          /\ result.known => Occurrences(fetched, f_path) = 1

C14_Witness ==
    /\ fpc = "return"
    /\ result.known
    /\ result.remediated
    /\ identified = <<f_path>>
    /\ fetched = <<f_path>>
    /\ opened = <<f_path>>


\* C15: processing one file leaves every other file untouched: a step changes
\* the bytes of a file only while remediate_file is opening or writing that
\* very file, and it leaves every result already handed out as it was (the
\* results of an operation only grow, until the next operation starts).
C15_OnlyOwnFileChanges ==
    [][/\ \A q \in FilePaths :
             disk'[q] # disk[q] => (fpc \in {"open", "write"} /\ q = f_path)
       /\ \/ results' = results
          \/ results' = << >> /\ fpc' = "identify"
          \/ results' = << >> /\ gpc' = "created"
          \/ /\ Len(results') = Len(results) + 1
             /\ SubSeq(results', 1, Len(results)) = results]_vars

C15_Witness ==
    /\ gpc = "call_loop"
    /\ fpc = "return"
    /\ result.remediated
    /\ Len(results) >= 1
    /\ results[1].path # f_path
    /\ disk[f_path] # pre
    /\ disk[results[1].path] = ModifiedContent


\* C16: input_count counts top-level inputs, not files: it starts at 0, never
\* decreases, is not changed by remediate_file, and grows by exactly one per
\* remediate(path) sequence, at the moment the first result of the sequence is
\* requested; a sequence that is created and never pulled leaves it unchanged.
C16_CountsStartedInputs ==
    /\ input_count = 0
    /\ [][input_count' = IF gpc = "created" /\ gpc' \in {"for", "call_single"}
                            THEN input_count + 1
                            ELSE input_count]_vars

C16_Witness ==
    /\ DirDone
    /\ Len(results) = NumFiles
    /\ NumFiles > 1
    /\ input_count = 1


\* C17: every result that remediate yields for a file enumerated under a
\* directory input has the resolved path of that file as path and the
\* resolved input directory as target_path, so its target_path differs from
\* its path.
C17_TargetIsInputDirectory ==
    (gpc \in {"for", "call_loop", "yield_loop", "done"} /\ IsDir(g_path))
        => \A i \in Handed :
              results[i].identity.cls # "GroupIdentity"
                 => /\ results[i].path \in listed
                    /\ results[i].path = identified[i]
                    /\ results[i].identity.path = results[i].path
                    /\ results[i].target_path = g_path
                    /\ results[i].target_path = pathlib_resolve(g_arg)
                    /\ results[i].target_path # results[i].path

C17_Witness ==
    /\ gpc = "yield_loop"
    /\ Len(results) = NumFiles
    /\ \A i \in Handed :
          results[i].target_path = g_path /\ results[i].path \in FilePaths

====
